---- MODULE Spec2Model ----
(***************************************************************************)
(* Model of the DCA decision engine of the trading bot                     *)
(* (src/strategies/dca_strategy.py) together with the parts of the         *)
(* exchange gateway (src/utils/binance_client.py) and of the configuration *)
(* (src/config.py) that it drives.                                         *)
(*                                                                         *)
(* Money is counted in cents: a tier amount in euros multiplied by an      *)
(* allocation in percent is the scaled amount in cents (40 EUR * 0.7 =     *)
(* 40 * 70 cents).  Time is a tick counter; TicksPerDay ticks make a day.  *)
(***************************************************************************)
EXTENDS Integers, Sequences, FiniteSets, TLC

VARIABLES
    mode,            \* config.TRADING_MODE
    now,             \* the wall clock, in ticks
    pc,              \* position of the DCA task
    daily_spent,     \* DCAStrategy.daily_spent (cents)
    last_buy_date,   \* DCAStrategy.last_buy_date (NoDate is None)
    trades_history,  \* DCAStrategy.trades_history
    file,            \* config.TRADES_FILE on disk
    remaining_budget,\* run_check local
    opportunities,   \* run_check local
    coin_idx,        \* position of the evaluation loop of run_check
    idx,             \* position of the execution loop of run_check
    buy_amount,      \* run_check local, the amount handed to _execute_buy
    order,           \* _execute_buy local, what place_buy_order returned
    data,            \* _save_history local, the document it read
    success,         \* what _execute_buy returned
    notified,      \* level of the last notification emitted in the cycle
    delivered,       \* whether the alert of the purchase just made reached
                     \* the webhook
    sniper_history,  \* in-memory list of the sibling strategy
    fills,           \* history: the orders the gateway confirmed as filled
    pre,             \* history: budget state when _execute_buy was entered
    bought,          \* history: trades recorded in the current cycle
    save_failed,     \* history: _save_history failed in the current attempt
    crashed,         \* history: the running process was started after a crash
    in_rsi,          \* _get_buy_amount / _check_coin: the RSI handed in
    in_coin,         \* _check_coin: the coin handed in
    tier_amount,     \* what _get_buy_amount returned (NotComputed before)
    proposal,        \* what _check_coin returned (found = <<>> is None)
    task,            \* position of DCAStrategy.start
    timer,           \* seconds left of the sleep of start
    sleep_len,       \* seconds the sleep of start was entered with
    ending,          \* how the last run_check ended
    error_sent,      \* run_check sent an error notification in the last cycle
    cancel_requested,\* the task of start was cancelled
    clock,           \* time.time() of the gateway, in seconds
    _request_count,  \* BinanceClient._request_count
    _last_request_time, \* BinanceClient._last_request_time
    gpc,             \* position of _retry_request
    attempt,         \* _retry_request: the loop variable
    calls,           \* history: invocations of the wrapped call in the request
    waits,           \* history: the backoff sleeps of the request
    errs,            \* history: the error of each failed attempt of the request
    result,          \* how _retry_request ended: what it returned or raised
    requests,        \* history: the requests made through _retry_request
    returned,        \* history: the attempt whose value _retry_request returned
    passed,          \* history: the calls that passed _rate_limit_check, by time
    rl_slept,        \* history: the sleep of the last _rate_limit_check
    _price_cache,    \* BinanceClient._price_cache
    fetched,         \* history: the last successful price fetch of each symbol
    net_calls,       \* history: the calls of the exchange client of the operation
    ret,             \* what the last gateway operation returned or raised
    op,              \* history: the last gateway operation and its symbol
    ops_done,        \* history: the gateway operations made
    prices,          \* calculate_rsi: the closing prices handed in
    period,          \* calculate_rsi: the period handed in
    rsi_out          \* what calculate_rsi returned, in hundredths

\* the strategy, its document and its history variables
dca == <<mode, now, pc, daily_spent, last_buy_date, trades_history, file,
         remaining_budget, opportunities, coin_idx, idx, buy_amount, order,
         data, success, notified, delivered, sniper_history, fills, pre, bought,
         save_failed, crashed>>
\* the tier lookup and the evaluation of one coin, taken alone
tiers == <<in_rsi, in_coin, tier_amount, proposal>>
\* the scheduling loop of start, taken alone
loop == <<task, timer, sleep_len, ending, error_sent, cancel_requested>>
\* the gateway's rate governor and retry wrapper, taken alone
gateway == <<clock, _request_count, _last_request_time, gpc, attempt, calls,
             waits, errs, result, requests, returned, passed, rl_slept>>
\* the gateway's operations and its price cache
ops == <<_price_cache, fetched, net_calls, ret, op, ops_done>>
\* calculate_rsi, taken alone
indicator == <<prices, period, rsi_out>>

vars == <<dca, tiers, loop, gateway, ops, indicator>>

---------------------------------------------------------------------------
(* Bounds of the model *)
MaxNow == 2
TicksPerDay == 2
MaxFills == 2
MaxSharedFills == 1
MaxSniper == 2
MaxRsi == 100
StartTime == 61
MaxClock == 160
MaxRequests == 2
MaxOps == 2
MaxLen == 4
MaxPrice == 4
MaxPeriod == 3

(* Configuration (src/config.py) *)
max_daily_buy == 40
min_trade_amount == 10
check_interval == 14400
cooldown == 60
rate_limit == 1200
rate_window == 60
max_retries == 3
retry_delay == 1
Modes == {"dry_run", "testnet", "live"}
coins == <<"BTC", "ETH">>
allocation == ("BTC" :> 70) @@ ("ETH" :> 30)
rsi_levels == (30 :> 40) @@ (40 :> 25) @@ (50 :> 15)
SortedThresholds == <<30, 40, 50>>

Cap == max_daily_buy * 100
MinTrade == min_trade_amount * 100

NoDate == -1
RSIValues == {25, 35, 55}

---------------------------------------------------------------------------
(* Clock and timestamps *)
Today == now \div TicksPerDay

\* datetime.isoformat(): the date part and the time-of-day part
isoformat(t) == <<t \div TicksPerDay, t % TicksPerDay>>
\* a parser that takes the two parts in the wrong order
fromisoformatSwapped(s) == s[2] * TicksPerDay + s[1]

\* datetime.fromisoformat()
fromisoformat(s) == s[1] * TicksPerDay + s[2]
\* datetime.date()
DateOf(t) == t \div TicksPerDay

---------------------------------------------------------------------------
(* The persisted document *)
NoFile == [state |-> "absent", data |-> <<>>]
CorruptFile == [state |-> "corrupt", data |-> <<>>]
Doc(d) == [state |-> "ok", data |-> d]

\* dict.get(key, [])
Get(d, key) == IF key \in DOMAIN d THEN d[key] ELSE <<>>

DcaTrades(f) == Get(f.data, "dca_trades")
SniperTrades(f) == Get(f.data, "sniper_trades")

RECURSIVE SumAmounts(_, _, _)
\* sum(trade['amount'] for trade in trades if fromisoformat(ts).date() == today)
SumAmounts(trades, today, i) ==
    IF i > Len(trades) THEN 0
    ELSE (IF DateOf(fromisoformat(trades[i].timestamp)) = today
          THEN trades[i].amount ELSE 0) + SumAmounts(trades, today, i + 1)

\* a save that starts from an empty document instead of the one on disk
SetKeyFresh(d, key, value) == [k \in {key} |-> value]

\* data = the document read (or {}); data[key] = value
SetKey(d, key, value) ==
    [k \in DOMAIN d \cup {key} |-> IF k = key THEN value ELSE d[k]]

\* a save that dumps only the newest trade under the strategy's key
WrittenDocLastOnly(d, history) ==
    SetKey(d, "dca_trades",
           IF history = <<>> THEN <<>> ELSE <<history[Len(history)]>>)

\* what _save_history dumps: the document it read, with the strategy's own
\* list replaced by the list in memory
WrittenDoc(d, history) == SetKey(d, "dca_trades", history)

\* the sibling's save, same discipline under its own key: the file it leaves
SiblingSaveHistory(f, history) ==
    IF f.state = "corrupt" THEN f
    ELSE Doc(SetKey(f.data, "sniper_trades", history))

---------------------------------------------------------------------------
(* Pure helpers of the strategy *)

RECURSIVE BuyAmountFromInclusive(_, _)
\* a lookup that also takes the tier of a threshold equal to the RSI
BuyAmountFromInclusive(rsi, i) ==
    IF i > Len(SortedThresholds) THEN 0
    ELSE IF rsi <= SortedThresholds[i] THEN rsi_levels[SortedThresholds[i]]
    ELSE BuyAmountFromInclusive(rsi, i + 1)

RECURSIVE BuyAmountFrom(_, _)
\* the loop of _get_buy_amount over the sorted thresholds, from position i
BuyAmountFrom(rsi, i) ==
    IF i > Len(SortedThresholds) THEN 0
    ELSE IF rsi < SortedThresholds[i] THEN rsi_levels[SortedThresholds[i]]
    ELSE BuyAmountFrom(rsi, i + 1)

_get_buy_amount(rsi) == BuyAmountFrom(rsi, 1)

\* an evaluation that proposes the tier amount without scaling it
ProposalUnscaled(coin, rsi) ==
    LET tier == BuyAmountFrom(rsi, 1)
    IN  IF tier * 100 >= MinTrade
        THEN <<[coin |-> coin, rsi |-> rsi, amount |-> tier * 100]>>
        ELSE <<>>

\* _check_coin after the RSI is known: the proposal, or none
\* (amounts in cents: euros * percent)
Proposal(coin, rsi) ==
    LET tier == _get_buy_amount(rsi)
        scaled == IF tier > 0 THEN tier * allocation[coin] ELSE tier
    IN  IF scaled >= MinTrade
        THEN <<[coin |-> coin, rsi |-> rsi, amount |-> scaled]>>
        ELSE <<>>

\* what the evaluation of one coin can meet: no candle data, no closing
\* prices, an exception inside _check_coin, or an RSI
EvalOutcomes ==
    {[kind |-> k, rsi |-> 0] : k \in {"no_klines", "no_prices", "exception"}}
    \cup {[kind |-> "rsi", rsi |-> r] : r \in RSIValues}

\* a _check_coin whose exceptions reach run_check
_check_coin_unguarded(coin, out) ==
    [raised |-> out.kind = "exception",
     found |-> IF out.kind = "rsi" THEN Proposal(coin, out.rsi) ELSE <<>>]

\* _check_coin: it returns None on missing data and from its except branch,
\* so nothing is raised to run_check
_check_coin(coin, out) ==
    [raised |-> FALSE,
     found |-> IF out.kind = "rsi" THEN Proposal(coin, out.rsi) ELSE <<>>]

RECURSIVE InsertByRsi(_, _)
\* stable insertion: after every element whose rsi is not greater
InsertByRsi(o, s) ==
    IF s = <<>> THEN <<o>>
    ELSE IF s[Len(s)].rsi <= o.rsi THEN Append(s, o)
    ELSE Append(InsertByRsi(o, SubSeq(s, 1, Len(s) - 1)), s[Len(s)])

\* a ranking that leaves the proposals in the order of evaluation
SortByRsiNone(s) == s

RECURSIVE SortByRsi(_)
\* opportunities.sort(key=lambda x: x['rsi']); list.sort is stable
SortByRsi(s) ==
    IF s = <<>> THEN <<>>
    ELSE InsertByRsi(s[Len(s)], SortByRsi(SubSeq(s, 1, Len(s) - 1)))

Min2(a, b) == IF a < b THEN a ELSE b

\* a rollover that never resets the counter
_reset_daily_counter_never(spent, last, today) ==
    [daily_spent |-> spent, last_buy_date |-> last]

\* a rollover that resets the counter and keeps the date
_reset_daily_counter_keeping_date(spent, last, today) ==
    IF last # NoDate /\ last # today
    THEN [daily_spent |-> 0, last_buy_date |-> last]
    ELSE [daily_spent |-> spent, last_buy_date |-> last]

\* _reset_daily_counter: the two fields after the call
_reset_daily_counter(spent, last, today) ==
    IF last # NoDate /\ last # today
    THEN [daily_spent |-> 0, last_buy_date |-> NoDate]
    ELSE [daily_spent |-> spent, last_buy_date |-> last]

\* a daily limit that stops the cycle only once it is exceeded
LimitReachedStrict(spent) == spent > Cap

\* run_check: the daily limit is reached
LimitReached(spent) == spent >= Cap

\* a budget check that never stops the walk
InsufficientBudgetNever(remaining) == FALSE

\* the budget check at the head of the execution loop of run_check
InsufficientBudget(remaining) == remaining < MinTrade


---------------------------------------------------------------------------
(* The notification manager, as seen by its caller *)

\* a manager that lets a failed delivery escape
send_message_raising(deliveryOK) ==
    [raised |-> ~deliveryOK,
     delivered |-> IF deliveryOK THEN "ok" ELSE "failed"]

\* send_message: the errors of the webhook call are caught and logged
send_message(deliveryOK) ==
    [raised |-> FALSE, delivered |-> IF deliveryOK THEN "ok" ELSE "failed"]

---------------------------------------------------------------------------
(* The gateway's place_buy_order, as seen by its caller *)
NoOrder == [kind |-> "none", qty |-> "num", id |-> -1, sent |-> FALSE]

\* a gateway without the branch of the simulated mode
place_buy_order_live(m, priceOK, orderOK, qty, id) ==
    IF priceOK /\ orderOK
    THEN [kind |-> "order", qty |-> qty, id |-> id, sent |-> TRUE]
    ELSE [kind |-> "none", qty |-> "num", id |-> -1, sent |-> priceOK]

\* priceOK: get_price returned a price (0.0 otherwise); orderOK: the order call
\* went through within the retries; qty: the type of executedQty in the
\* exchange's answer; id: the order id of the fill; sent: order_market_buy
\* was called on the exchange client, which the division by a price of 0.0
\* prevents
place_buy_order(m, priceOK, orderOK, qty, id) ==
    IF m = "dry_run"
    THEN IF priceOK
         THEN [kind |-> "order", qty |-> "num", id |-> id, sent |-> FALSE]
         ELSE [kind |-> "raise", qty |-> "num", id |-> -1, sent |-> FALSE]
    ELSE IF priceOK /\ orderOK
         THEN [kind |-> "order", qty |-> qty, id |-> id, sent |-> TRUE]
         ELSE [kind |-> "none", qty |-> "num", id |-> -1, sent |-> priceOK]

---------------------------------------------------------------------------
(* Initial state: the fields set by DCAStrategy.__init__ before it loads   *)
(* the history, over the documents an earlier run can have left.           *)
Trade0(m) ==
    [timestamp |-> isoformat(0), coin |-> "ETH", amount |-> 1200, rsi |-> 25,
     order_id |-> 0, dry_run |-> (m = "dry_run")]

InitFiles(m) ==
    { NoFile,
      Doc("sniper_trades" :> <<1>>),
      Doc(("dca_trades" :> <<Trade0(m)>>) @@ ("sniper_trades" :> <<1>>)) }

FillOf(t) == [order_id |-> t.order_id, coin |-> t.coin, amount |-> t.amount]

RECURSIVE FillsOf(_)
FillsOf(trades) ==
    IF trades = <<>> THEN <<>>
    ELSE Append(FillsOf(SubSeq(trades, 1, Len(trades) - 1)),
                FillOf(trades[Len(trades)]))

\* the fills confirmed since the initial state (order ids count from 1; the
\* trade of an earlier run carries the id 0)
NewFills(fs) == SelectSeq(fs, LAMBDA f : f.order_id > 0)

NoPre == [daily_spent |-> 0, last_buy_date |-> NoDate, n |-> 0]

NotComputed == -1

\* the parts of the model that a specification of the strategy leaves aside
TiersIdle ==
    /\ in_rsi = 0
    /\ in_coin = coins[1]
    /\ tier_amount = NotComputed
    /\ proposal = [done |-> FALSE, found |-> <<>>]

LoopIdle ==
    /\ task = "run_check"
    /\ timer = 0
    /\ sleep_len = 0
    /\ ending = "none"
    /\ error_sent = FALSE
    /\ cancel_requested = FALSE

\* BinanceClient.__init__
GatewayIdle ==
    /\ clock = StartTime
    /\ _request_count = 0
    /\ _last_request_time = 0
    /\ gpc = "idle"
    /\ attempt = 0
    /\ calls = 0
    /\ waits = <<>>
    /\ errs = <<>>
    /\ result = "none"
    /\ requests = 0
    /\ returned = 0
    /\ passed = <<>>
    /\ rl_slept = 0

\* the trading pairs of the configured coins
Symbols == {"BTCUSDT", "ETHUSDT"}
NoEntry == [price |-> 0, time |-> -1]
NoRet == [kind |-> "init", value |-> 0]
NoOp == [name |-> "none", symbol |-> "none"]

\* BinanceClient.__init__: the cache is empty
OpsIdle ==
    /\ _price_cache = [sym \in Symbols |-> NoEntry]
    /\ fetched = [sym \in Symbols |-> NoEntry]
    /\ net_calls = <<>>
    /\ ret = NoRet
    /\ op = NoOp
    /\ ops_done = 0

IndicatorIdle ==
    /\ prices = <<>>
    /\ period = 1
    /\ rsi_out = NotComputed

Init ==
    /\ mode \in Modes
    /\ now = 0
    /\ pc = "boot"
    /\ daily_spent = 0
    /\ last_buy_date = NoDate
    /\ trades_history = <<>>
    /\ file \in InitFiles(mode)
    /\ remaining_budget = 0
    /\ opportunities = <<>>
    /\ coin_idx = 1
    /\ idx = 1
    /\ buy_amount = 0
    /\ order = NoOrder
    /\ data = <<>>
    /\ success = FALSE
    /\ notified = "none"
    /\ delivered = "none"
    /\ sniper_history = SniperTrades(file)
    /\ fills = FillsOf(DcaTrades(file))
    /\ pre = NoPre
    /\ bought = 0
    /\ save_failed = FALSE
    /\ crashed = FALSE
    /\ TiersIdle
    /\ LoopIdle
    /\ GatewayIdle
    /\ OpsIdle
    /\ IndicatorIdle

locals == <<remaining_budget, opportunities, coin_idx, idx, buy_amount, order,
            data, success, notified, delivered>>
history == <<fills, pre, bought, save_failed, crashed>>

\* run_check returns: its locals are gone, the task sleeps until the next tick
EndCycle ==
    /\ pc' = "idle"
    /\ remaining_budget' = 0
    /\ opportunities' = <<>>
    /\ coin_idx' = 1
    /\ idx' = 1
    /\ buy_amount' = 0
    /\ order' = NoOrder
    /\ data' = <<>>
    /\ success' = FALSE
    /\ notified' = "none"
    /\ delivered' = "none"
    /\ pre' = NoPre
    /\ bought' = 0
    /\ save_failed' = FALSE

---------------------------------------------------------------------------
(* DCAStrategy._load_history, called by __init__ *)
Load ==
    /\ pc = "boot"
    /\ pc' = "loaded"
    /\ IF file.state = "ok"
       THEN LET loaded == DcaTrades(file)
                spent == SumAmounts(loaded, Today, 1)
            IN  /\ trades_history' = loaded
                /\ daily_spent' = spent
                /\ last_buy_date' = IF spent > 0 THEN Today ELSE last_buy_date
       ELSE \* no file, or json.load raised: trades_history = []
            /\ trades_history' = <<>>
            /\ UNCHANGED <<daily_spent, last_buy_date>>
    /\ UNCHANGED <<mode, now, file, locals, sniper_history, history>>
    /\ UNCHANGED <<tiers, loop, gateway, ops, indicator>>

(* run_check up to the evaluation loop: rollover, daily limit, budget *)
StartCycle ==
    /\ pc \in {"loaded", "idle"}
    /\ LET r == _reset_daily_counter(daily_spent, last_buy_date, Today)
           spent == r.daily_spent
       IN  /\ daily_spent' = spent
           /\ last_buy_date' = r.last_buy_date
           /\ IF LimitReached(spent)
              THEN EndCycle
              ELSE /\ pc' = "eval"
                   /\ remaining_budget' = Cap - spent
                   /\ UNCHANGED <<opportunities, coin_idx, idx, buy_amount,
                                  order, data, success, notified, delivered, pre, bought,
                                  save_failed>>
    /\ UNCHANGED <<mode, now, trades_history, file, sniper_history, fills,
                   crashed>>
    /\ UNCHANGED <<tiers, loop, gateway, ops, indicator>>

(* one turn of the evaluation loop: _check_coin for the next coin; after the *)
(* last coin the proposals are sorted and an empty list ends the cycle       *)
CheckCoin ==
    /\ pc = "eval"
    /\ \E out \in EvalOutcomes :
         LET checked == _check_coin(coins[coin_idx], out)
             opps == opportunities \o checked.found
         IN  IF checked.raised
             THEN \* the except branch of run_check ends the cycle
                  EndCycle
             ELSE IF coin_idx < Len(coins)
             THEN /\ opportunities' = opps
                  /\ coin_idx' = coin_idx + 1
                  /\ UNCHANGED <<pc, remaining_budget, idx, buy_amount, order,
                                 data, success, notified, delivered, pre, bought,
                                 save_failed>>
             ELSE IF opps = <<>>
             THEN EndCycle
             ELSE /\ opportunities' = SortByRsi(opps)
                  /\ pc' = "exec"
                  /\ UNCHANGED <<remaining_budget, coin_idx, idx, buy_amount,
                                 order, data, success, notified, delivered, pre, bought,
                                 save_failed>>
    /\ UNCHANGED <<mode, now, daily_spent, last_buy_date, trades_history, file,
                   sniper_history, fills, crashed>>
    /\ UNCHANGED <<tiers, loop, gateway, ops, indicator>>

(* head of the execution loop of run_check: end of the list, budget check, *)
(* clamp, opportunity notification                                         *)
ExecHead ==
    /\ pc = "exec"
    /\ IF idx > Len(opportunities) \/ InsufficientBudget(remaining_budget)
       THEN EndCycle
       ELSE \E deliveryOK \in BOOLEAN :
              LET sent == send_message(deliveryOK)
              IN  IF sent.raised
                  THEN \* the except branch of run_check
                       EndCycle
                  ELSE /\ buy_amount' = Min2(opportunities[idx].amount,
                                             remaining_budget)
                       /\ notified' = "OPPORTUNITY"
                       /\ delivered' = "none"
                       /\ pre' = [daily_spent |-> daily_spent,
                                  last_buy_date |-> last_buy_date,
                                  n |-> Len(trades_history)]
                       /\ pc' = "submit"
                       /\ save_failed' = FALSE
                       /\ order' = NoOrder
                       /\ UNCHANGED <<remaining_budget, opportunities,
                                      coin_idx, idx, data, success, bought>>
    /\ UNCHANGED <<mode, now, daily_spent, last_buy_date, trades_history, file,
                   sniper_history, fills, crashed>>
    /\ UNCHANGED <<tiers, loop, gateway, ops, indicator>>

(* _execute_buy up to the answer of place_buy_order: a rejected order and an *)
(* exception of place_buy_order both send an error and return False          *)
PlaceOrder ==
    /\ pc = "submit"
    /\ \E priceOK \in BOOLEAN :
       \E orderOK \in IF mode # "dry_run" /\ priceOK THEN BOOLEAN ELSE {TRUE} :
       \E qty \in IF mode # "dry_run" /\ priceOK /\ orderOK
                 THEN {"num", "str"} ELSE {"num"} :
         LET o == place_buy_order(mode, priceOK, orderOK, qty,
                                  Len(NewFills(fills)) + 1)
         IN  IF o.kind = "order"
             THEN /\ Len(NewFills(fills)) < MaxFills
                  /\ order' = o
                  /\ fills' = Append(fills,
                                [order_id |-> o.id,
                                 coin |-> opportunities[idx].coin,
                                 amount |-> buy_amount])
                  /\ pc' = "placed"
                  /\ UNCHANGED <<success, notified, delivered>>
             ELSE /\ order' = o
                  /\ notified' = "ERROR"
                  /\ delivered' = "none"
                  /\ success' = FALSE
                  /\ pc' = "after_buy"
                  /\ UNCHANGED fills
    /\ UNCHANGED <<mode, now, daily_spent, last_buy_date, trades_history, file,
                   remaining_budget, opportunities, coin_idx, idx, buy_amount,
                   data, sniper_history, pre, bought, save_failed, crashed>>
    /\ UNCHANGED <<tiers, loop, gateway, ops, indicator>>

\* the trade record _execute_buy builds from the order
NewTrade(opp, amount, o, m, t) ==
    [timestamp |-> isoformat(t), coin |-> opp.coin, amount |-> amount,
     rsi |-> opp.rsi, order_id |-> o.id, dry_run |-> (m = "dry_run")]

(* _execute_buy: the trade is appended and _save_history is entered, which *)
(* reads the existing document; a document that does not parse takes it to *)
(* its except branch, and nothing is written                               *)
Record ==
    /\ pc = "placed"
    /\ trades_history' = Append(trades_history,
                            NewTrade(opportunities[idx], buy_amount, order,
                                     mode, now))
    /\ bought' = bought + 1
    /\ IF file.state = "corrupt"
       THEN /\ save_failed' = TRUE
            /\ pc' = "saved"
            /\ data' = data
       ELSE /\ save_failed' = save_failed
            /\ pc' = "writing"
            /\ data' = file.data
    /\ UNCHANGED <<mode, now, daily_spent, last_buy_date, file,
                   remaining_budget, opportunities, coin_idx, idx, buy_amount,
                   order, success, notified, delivered, sniper_history, fills, pre,
                   crashed>>
    /\ UNCHANGED <<tiers, loop, gateway, ops, indicator>>

(* _save_history: the document is written back; an error of the write is *)
(* caught and logged by _save_history                                    *)
Write ==
    /\ pc = "writing"
    /\ \E writeOK \in BOOLEAN :
         /\ file' = IF writeOK THEN Doc(WrittenDoc(data, trades_history))
                    ELSE file
         /\ save_failed' = ~writeOK
    /\ data' = <<>>
    /\ pc' = "saved"
    /\ UNCHANGED <<mode, now, daily_spent, last_buy_date, trades_history,
                   remaining_budget, opportunities, coin_idx, idx, buy_amount,
                   order, success, notified, delivered, sniper_history, fills, pre,
                   bought, crashed>>
    /\ UNCHANGED <<tiers, loop, gateway, ops, indicator>>

(* _execute_buy: the counters are updated *)
Count ==
    /\ pc = "saved"
    /\ daily_spent' = daily_spent + buy_amount
    /\ last_buy_date' = Today
    /\ pc' = "alert"
    /\ UNCHANGED <<mode, now, trades_history, file, locals, sniper_history,
                   history>>
    /\ UNCHANGED <<tiers, loop, gateway, ops, indicator>>

(* _execute_buy: the trade notification, then the log line that formats the *)
(* quantity as a float; an exception there is caught, an error is sent and   *)
(* False is returned                                                         *)
Alert ==
    /\ pc = "alert"
    /\ \E deliveryOK \in BOOLEAN :
         LET sent == send_message(deliveryOK)
         IN  IF order.qty = "num" /\ ~sent.raised
             THEN /\ notified' = "TRADE"
                  /\ delivered' = sent.delivered
                  /\ success' = TRUE
             ELSE \* the except branch sends an error
                  /\ notified' = "ERROR"
                  /\ delivered' = "none"
                  /\ success' = FALSE
    /\ pc' = "after_buy"
    /\ UNCHANGED <<mode, now, daily_spent, last_buy_date, trades_history, file,
                   remaining_budget, opportunities, coin_idx, idx, buy_amount,
                   order, data, sniper_history, history>>
    /\ UNCHANGED <<tiers, loop, gateway, ops, indicator>>

(* run_check after _execute_buy returned: stop after a success, else pause *)
(* and go on with the next proposal                                        *)
AfterBuy ==
    /\ pc = "after_buy"
    /\ IF success
       THEN \* remaining_budget -= buy_amount; break
            EndCycle
       ELSE \* _execute_buy has returned: its order is gone
            /\ idx' = idx + 1
            /\ pc' = "exec"
            /\ delivered' = "none"
            /\ order' = NoOrder
            /\ UNCHANGED <<remaining_budget, opportunities, coin_idx,
                           buy_amount, data, success, notified, pre,
                           bought, save_failed>>
    /\ UNCHANGED <<mode, now, daily_spent, last_buy_date, trades_history, file,
                   sniper_history, fills, crashed>>
    /\ UNCHANGED <<tiers, loop, gateway, ops, indicator>>

---------------------------------------------------------------------------
(* The environment *)

\* time passes
Tick ==
    /\ now < MaxNow
    /\ now' = now + 1
    /\ UNCHANGED <<mode, pc, daily_spent, last_buy_date, trades_history, file,
                   locals, sniper_history, history>>
    /\ UNCHANGED <<tiers, loop, gateway, ops, indicator>>

\* a _save_history that awaits between reading and writing the document
SuspendedInSave ==
    \/ pc \in {"loaded", "idle", "submit", "alert", "writing"}
    \/ pc = "after_buy" /\ ~success

\* an _execute_buy that awaits between the order and its bookkeeping
SuspendedAfterOrder ==
    \/ pc \in {"loaded", "idle", "submit", "alert", "placed"}
    \/ pc = "after_buy" /\ ~success

\* the points where the DCA task is suspended (sleeps, notification awaits)
\* and another task of the event loop can run
Suspended ==
    \/ pc \in {"loaded", "idle", "submit", "alert"}
    \/ pc = "after_buy" /\ ~success

\* the sibling strategy records a trade of its own and saves with the same
\* read-modify-write discipline under its own key
SiblingSave ==
    /\ Suspended
    /\ Len(sniper_history) < MaxSniper
    /\ LET appended == Append(sniper_history, Len(sniper_history) + 1)
       IN  /\ sniper_history' = appended
           /\ file' = SiblingSaveHistory(file, appended)
    /\ UNCHANGED <<mode, now, pc, daily_spent, last_buy_date, trades_history,
                   locals, history>>
    /\ UNCHANGED <<tiers, loop, gateway, ops, indicator>>

\* the fields of a fresh process: DCAStrategy.__init__ before _load_history
Fresh ==
    /\ pc' = "boot"
    /\ daily_spent' = 0
    /\ last_buy_date' = NoDate
    /\ trades_history' = <<>>
    /\ remaining_budget' = 0
    /\ opportunities' = <<>>
    /\ coin_idx' = 1
    /\ idx' = 1
    /\ buy_amount' = 0
    /\ order' = NoOrder
    /\ data' = <<>>
    /\ success' = FALSE
    /\ notified' = "none"
    /\ delivered' = "none"
    /\ pre' = NoPre
    /\ bought' = 0
    /\ save_failed' = FALSE

\* the bot is stopped (its tasks are cancelled at a suspension point) and
\* started again later
Restart ==
    /\ Suspended
    /\ Fresh
    /\ sniper_history' = SniperTrades(file)
    /\ crashed' = FALSE
    /\ UNCHANGED <<mode, now, file, fills>>
    /\ UNCHANGED <<tiers, loop, gateway, ops, indicator>>

\* the process dies at any point and is started again
Crash ==
    /\ pc # "boot"
    /\ Fresh
    /\ sniper_history' = SniperTrades(file)
    /\ crashed' = TRUE
    /\ UNCHANGED <<mode, now, file, fills>>
    /\ UNCHANGED <<tiers, loop, gateway, ops, indicator>>

\* the process dies inside the write of _save_history, after open(..., 'w')
\* truncated the file and before json.dump completed
CrashInWrite ==
    /\ pc = "writing"
    /\ Fresh
    /\ file' = CorruptFile
    /\ sniper_history' = <<>>
    /\ crashed' = TRUE
    /\ UNCHANGED <<mode, now, fills>>
    /\ UNCHANGED <<tiers, loop, gateway, ops, indicator>>

---------------------------------------------------------------------------
Next ==
    \/ Load
    \/ StartCycle
    \/ CheckCoin
    \/ ExecHead
    \/ PlaceOrder
    \/ Record
    \/ Write
    \/ Count
    \/ Alert
    \/ AfterBuy
    \/ Tick
    \/ Restart

Spec == Init /\ [][Next]_vars

\* the strategy and a sibling strategy sharing the document, over the runs
\* with at most MaxSharedFills orders filled
NextShared ==
    \/ /\ Next
       /\ Len(NewFills(fills')) <= MaxSharedFills
    \/ SiblingSave

SpecShared == Init /\ [][NextShared]_vars

\* the strategy on a machine that can die at any point
NextCrash ==
    \/ Next
    \/ Crash
    \/ CrashInWrite

SpecCrash == Init /\ [][NextCrash]_vars

---------------------------------------------------------------------------
(* The strategy at rest, for the specifications of the other parts *)
DcaAtRest ==
    /\ now = 0
    /\ pc = "boot"
    /\ daily_spent = 0
    /\ last_buy_date = NoDate
    /\ trades_history = <<>>
    /\ file = NoFile
    /\ remaining_budget = 0
    /\ opportunities = <<>>
    /\ coin_idx = 1
    /\ idx = 1
    /\ buy_amount = 0
    /\ order = NoOrder
    /\ data = <<>>
    /\ success = FALSE
    /\ notified = "none"
    /\ delivered = "none"
    /\ sniper_history = <<>>
    /\ fills = <<>>
    /\ pre = NoPre
    /\ bought = 0
    /\ save_failed = FALSE
    /\ crashed = FALSE

DcaIdle ==
    /\ mode = "dry_run"
    /\ DcaAtRest

---------------------------------------------------------------------------
(* _get_buy_amount and the proposal of _check_coin, over every RSI and coin *)
InitTiers ==
    /\ DcaIdle
    /\ LoopIdle
    /\ GatewayIdle
    /\ OpsIdle
    /\ IndicatorIdle
    /\ in_rsi \in 0..MaxRsi
    /\ in_coin \in {coins[i] : i \in 1..Len(coins)}
    /\ tier_amount = NotComputed
    /\ proposal = [done |-> FALSE, found |-> <<>>]

\* _check_coin calls _get_buy_amount with the RSI it computed
TierLookup ==
    /\ tier_amount = NotComputed
    /\ tier_amount' = _get_buy_amount(in_rsi)
    /\ UNCHANGED <<in_rsi, in_coin, proposal>>
    /\ UNCHANGED <<dca, loop, gateway, ops, indicator>>

\* _check_coin scales the amount, applies the floor and returns
EvaluateCoin ==
    /\ tier_amount # NotComputed
    /\ ~proposal.done
    /\ proposal' = [done |-> TRUE, found |-> Proposal(in_coin, in_rsi)]
    /\ UNCHANGED <<in_rsi, in_coin, tier_amount>>
    /\ UNCHANGED <<dca, loop, gateway, ops, indicator>>

NextTiers ==
    \/ TierLookup
    \/ EvaluateCoin

SpecTiers == InitTiers /\ [][NextTiers]_vars

---------------------------------------------------------------------------
(* DCAStrategy.start: the scheduling loop, with run_check seen by the way *)
(* it ends.  Time is in seconds.                                          *)

\* how a run_check ends, seen from start: it returned normally; an exception
\* of its body was caught by its own except branch, which sends an error and
\* returns; an exception left it (raised outside its try block or inside its
\* except branch)
Endings == {"returned", "caught", "escaped"}

\* a loop without the except branch: an exception leaving run_check ends it
AfterCycleUnguarded(e) ==
    IF e = "escaped"
    THEN [task |-> "stopped", sleep_len |-> 0]
    ELSE [task |-> "sleep", sleep_len |-> check_interval]

\* start after run_check: sleep(interval) inside the try block when run_check
\* came back, sleep(60) in the except branch when an exception left it
AfterCycle(e) ==
    IF e = "escaped"
    THEN [task |-> "sleep", sleep_len |-> cooldown]
    ELSE [task |-> "sleep", sleep_len |-> check_interval]

InitLoop ==
    /\ DcaIdle
    /\ TiersIdle
    /\ GatewayIdle
    /\ OpsIdle
    /\ IndicatorIdle
    /\ LoopIdle

\* one turn of the loop of start up to its sleep
RunCheck ==
    /\ task = "run_check"
    /\ \E e \in Endings :
         LET a == AfterCycle(e)
         IN  /\ task' = a.task
             /\ sleep_len' = a.sleep_len
             /\ timer' = a.sleep_len
             /\ ending' = e
             /\ error_sent' = (e = "caught")
    /\ UNCHANGED cancel_requested
    /\ UNCHANGED <<dca, tiers, gateway, ops, indicator>>

\* a second of the sleep passes
SleepTick ==
    /\ task = "sleep"
    /\ timer > 0
    /\ timer' = timer - 1
    /\ UNCHANGED <<task, sleep_len, ending, error_sent, cancel_requested>>
    /\ UNCHANGED <<dca, tiers, gateway, ops, indicator>>

\* the sleep is over: while self.enabled, enabled is never cleared
WakeUp ==
    /\ task = "sleep"
    /\ timer = 0
    /\ task' = "run_check"
    /\ sleep_len' = 0
    /\ UNCHANGED <<timer, ending, error_sent, cancel_requested>>
    /\ UNCHANGED <<dca, tiers, gateway, ops, indicator>>

\* CryptoTradingBot.stop cancels the task: CancelledError is raised at the
\* await the task is suspended in and start breaks out of its loop
Cancel ==
    /\ task \in {"run_check", "sleep"}
    /\ task' = "stopped"
    /\ cancel_requested' = TRUE
    /\ timer' = 0
    /\ sleep_len' = 0
    /\ UNCHANGED <<ending, error_sent>>
    /\ UNCHANGED <<dca, tiers, gateway, ops, indicator>>

NextLoop ==
    \/ RunCheck
    \/ SleepTick
    \/ WakeUp
    \/ Cancel

SpecLoop == InitLoop /\ [][NextLoop]_vars

\* the event loop runs a task that is ready and its timers fire
SpecLoopLive ==
    /\ SpecLoop
    /\ WF_vars(RunCheck)
    /\ WF_vars(SleepTick)
    /\ WF_vars(WakeUp)

---------------------------------------------------------------------------
(* The gateway: BinanceClient._rate_limit_check and _retry_request.  Time *)
(* is in seconds.                                                         *)

\* a governor that turns the caller away when the cap is reached
_rate_limit_check_rejecting(count, last, t) ==
    LET expired == t - last > rate_window
        count1 == IF expired THEN 0 ELSE count
        last1 == IF expired THEN t ELSE last
    IN  IF count1 >= rate_limit
        THEN [count |-> count1, last |-> last1, clock |-> t, slept |-> 0,
              raised |-> TRUE]
        ELSE [count |-> count1 + 1, last |-> last1, clock |-> t, slept |-> 0,
              raised |-> FALSE]

\* a governor whose window never expires
ExpiredNever(last, t) == FALSE

\* the window that began at 'last' is over at time t: counter and window
\* are reset
Expired(last, t) == t - last > rate_window

\* the argument of time.sleep when the counter has reached rate_limit
SleepTime(last, t) == rate_window - (t - last)

\* _rate_limit_check: the counter, the start of the window and the clock
\* after the call; time.sleep blocks the thread, so the wait is part of it,
\* and time.sleep raises ValueError for a negative argument
_rate_limit_check(count, last, t) ==
    LET expired == Expired(last, t)
        count1 == IF expired THEN 0 ELSE count
        last1 == IF expired THEN t ELSE last
        sleep_time == SleepTime(last1, t)
    IN  IF count1 >= rate_limit
        THEN IF sleep_time < 0
             THEN [count |-> count1, last |-> last1, clock |-> t, slept |-> 0,
                   raised |-> TRUE]
             ELSE [count |-> 1, last |-> t + sleep_time,
                   clock |-> t + sleep_time, slept |-> sleep_time,
                   raised |-> FALSE]
        ELSE [count |-> count1 + 1, last |-> last1, clock |-> t, slept |-> 0,
              raised |-> FALSE]

\* what the wrapped call does in one attempt
Outcomes == {"ok", "BinanceAPIException", "BinanceRequestException",
             "Exception"}
\* the errors _retry_request retries
Transient == {"BinanceAPIException", "BinanceRequestException"}

\* a wrapper that checks the rate limit once, before its first attempt
GovernedFirstOnly(a) == a = 0

\* _rate_limit_check is the first statement of the loop body: every
\* attempt, retries included, calls it before the wrapped call
Governed(a) == TRUE

\* a wrapper that retries every exception
RetriedAlways(out) == TRUE

\* the except clauses of _retry_request that go on with the loop: any
\* other exception is raised by 'except Exception: raise'
Retried(out) == out \in Transient

\* a wrapper that takes no attempt for the last one
LastAttemptNever(a) == FALSE

\* the negation of 'attempt < max_retries - 1'
LastAttempt(a) == a >= max_retries - 1

\* a wrapper that waits the same delay before every retry
BackoffFlat(a) == retry_delay

\* the sleep before the retry that follows attempt a (counted from 0)
Backoff(a) == retry_delay * (a + 1)

RECURSIVE SumBackoff(_)
\* the backoff sleeps of a request whose attempts all fail, up to attempt a
SumBackoff(a) == IF a < 0 THEN 0 ELSE Backoff(a) + SumBackoff(a - 1)

\* the longest a request can take: one wait for the window to roll over and
\* every backoff sleep
WorstCase == rate_window + SumBackoff(max_retries - 2)

\* the passes recorded so far, with one more at time t
AddPass(p, t) ==
    IF p # <<>> /\ p[Len(p)].t = t
    THEN [p EXCEPT ![Len(p)].n = @ + 1]
    ELSE Append(p, [t |-> t, n |-> 1])

\* the time that passes between two requests
Gaps == {1, 30, 61}

\* a gateway that was just built, or one that is near the cap of its window
\* after earlier requests: the request that opened the window at its start,
\* the others in the last second
InitGateway ==
    /\ DcaIdle
    /\ TiersIdle
    /\ LoopIdle
    /\ OpsIdle
    /\ IndicatorIdle
    /\ clock = StartTime
    /\ \/ /\ _request_count = 0
          /\ _last_request_time = 0
          /\ passed = <<>>
       \/ /\ _request_count \in {rate_limit - 1, rate_limit}
          /\ _last_request_time \in {StartTime - 30, StartTime}
          /\ passed = IF _last_request_time = StartTime
                      THEN <<[t |-> StartTime, n |-> _request_count]>>
                      ELSE <<[t |-> _last_request_time, n |-> 1],
                             [t |-> StartTime, n |-> _request_count - 1]>>
    /\ gpc = "idle"
    /\ attempt = 0
    /\ calls = 0
    /\ waits = <<>>
    /\ errs = <<>>
    /\ result = "none"
    /\ requests = 0
    /\ returned = 0
    /\ rl_slept = 0

\* a gateway operation calls _retry_request
Request ==
    /\ gpc \in {"idle", "done", "rested"}
    /\ requests < MaxRequests
    /\ clock + WorstCase <= MaxClock
    /\ requests' = requests + 1
    /\ gpc' = "try"
    /\ attempt' = 0
    /\ calls' = 0
    /\ waits' = <<>>
    /\ errs' = <<>>
    /\ result' = "none"
    /\ returned' = 0
    /\ rl_slept' = 0
    /\ UNCHANGED <<clock, _request_count, _last_request_time, passed>>
    /\ UNCHANGED <<dca, tiers, loop, ops, indicator>>

\* one turn of the loop of _retry_request: the rate-limit check, the wrapped
\* call, and for a transient error the backoff sleep or, on the last
\* attempt, the raise; any other exception, also one of the rate-limit
\* check, is raised at once
Attempt ==
    /\ gpc = "try"
    /\ IF attempt >= max_retries
       THEN \* range(max_retries) is exhausted: the function returns None
            /\ gpc' = "done"
            /\ result' = "None"
            /\ UNCHANGED <<clock, _request_count, _last_request_time, attempt,
                           calls, waits, errs, returned, passed, rl_slept>>
       ELSE LET checked == IF Governed(attempt)
                           THEN _rate_limit_check(_request_count,
                                                  _last_request_time, clock)
                           ELSE [count |-> _request_count,
                                 last |-> _last_request_time,
                                 clock |-> clock, slept |-> 0,
                                 raised |-> FALSE]
            IN  /\ _request_count' = checked.count
                /\ _last_request_time' = checked.last
                /\ rl_slept' = checked.slept
                /\ IF checked.raised
                   THEN /\ result' = "raised by _rate_limit_check"
                        /\ gpc' = "done"
                        /\ clock' = checked.clock
                        /\ UNCHANGED <<attempt, calls, waits, errs, returned,
                                       passed>>
                   ELSE /\ calls' = calls + 1
                        /\ passed' = AddPass(passed, checked.clock)
                        /\ \E out \in Outcomes :
                             IF out = "ok"
                             THEN /\ result' = "ok"
                                  /\ returned' = attempt + 1
                                  /\ gpc' = "done"
                                  /\ clock' = checked.clock
                                  /\ UNCHANGED <<attempt, waits, errs>>
                             ELSE IF Retried(out) /\ ~LastAttempt(attempt)
                             THEN /\ waits' = Append(waits, Backoff(attempt))
                                  /\ clock' = checked.clock + Backoff(attempt)
                                  /\ errs' = Append(errs, out)
                                  /\ attempt' = attempt + 1
                                  /\ UNCHANGED <<gpc, result, returned>>
                             ELSE /\ result' = out
                                  /\ errs' = Append(errs, out)
                                  /\ gpc' = "done"
                                  /\ clock' = checked.clock
                                  /\ UNCHANGED <<attempt, waits, returned>>
    /\ UNCHANGED requests
    /\ UNCHANGED <<dca, tiers, loop, ops, indicator>>

\* time passes between two requests, one gap of Gaps at most
Pass ==
    /\ gpc \in {"idle", "done"}
    /\ \E d \in Gaps :
         /\ clock + d <= MaxClock
         /\ clock' = clock + d
    /\ gpc' = "rested"
    /\ UNCHANGED <<_request_count, _last_request_time, attempt, calls,
                   waits, errs, result, requests, returned, passed, rl_slept>>
    /\ UNCHANGED <<dca, tiers, loop, ops, indicator>>

NextGateway ==
    \/ Request
    \/ Attempt
    \/ Pass

SpecGateway == InitGateway /\ [][NextGateway]_vars

\* a request that was started goes on: the calls are synchronous
SpecGatewayLive ==
    /\ SpecGateway
    /\ WF_vars(Attempt)

---------------------------------------------------------------------------
(* The operations of the gateway, each one whole: the calls are synchronous *)

\* get_price keeps a price for less than 5 seconds
cache_ttl == 5
\* CAPITAL_ALLOCATION['total'], the balance of the simulated mode
total_capital == 500

\* the prices the exchange quotes for a symbol
QuotesOf(sym) == IF sym = "BTCUSDT" THEN {100, 101} ELSE {200, 201}

\* the outcomes of the attempts of one request, in order: a success at the
\* first attempt, and transient errors only
Scripts ==
    {<<"ok", "ok", "ok">>,
     <<"BinanceRequestException", "BinanceAPIException",
       "BinanceAPIException">>}

\* the time between two operations
CacheGaps == {4, 5}

\* the backoff sleeps of the two requests of one operation
OpWorst == 2 * SumBackoff(max_retries - 2)

RECURSIVE _retry_request(_, _, _, _, _)
\* _retry_request from attempt a on: the result, the fields of the rate
\* governor, the clock and the number of calls made on the exchange client
_retry_request(count, last, t, outs, a) ==
    IF a >= max_retries
    THEN [result |-> "None", count |-> count, last |-> last, clock |-> t,
          calls |-> 0]
    ELSE LET checked == _rate_limit_check(count, last, t)
         IN  IF checked.raised
             THEN [result |-> "raise", count |-> checked.count,
                   last |-> checked.last, clock |-> checked.clock,
                   calls |-> 0]
             ELSE IF outs[a + 1] = "ok"
             THEN [result |-> "ok", count |-> checked.count,
                   last |-> checked.last, clock |-> checked.clock,
                   calls |-> 1]
             ELSE IF outs[a + 1] \in Transient /\ ~LastAttempt(a)
             THEN LET r == _retry_request(checked.count, checked.last,
                                          checked.clock + Backoff(a), outs,
                                          a + 1)
                  IN  [r EXCEPT !.calls = @ + 1]
             ELSE [result |-> "raise", count |-> checked.count,
                   last |-> checked.last, clock |-> checked.clock,
                   calls |-> 1]

\* n calls of the method f of the exchange client
Calls(f, n) == [i \in 1..n |-> f]

\* a cache that also serves an entry that is exactly 5 seconds old
CacheFreshInclusive(entry, t) == entry # NoEntry /\ t - entry.time <= cache_ttl

\* the symbol is in the cache and its entry is less than 5 seconds old
CacheFresh(entry, t) == entry # NoEntry /\ t - entry.time < cache_ttl

\* get_price: the price returned (0 for the 0.0 of the except branch), the
\* cache, the fields of the rate governor, the clock and the calls made
get_price(sym, cache, count, last, t, outs, quote) ==
    IF CacheFresh(cache[sym], t)
    THEN [price |-> cache[sym].price, cache |-> cache, count |-> count,
          last |-> last, clock |-> t, calls |-> <<>>]
    ELSE LET r == _retry_request(count, last, t, outs, 0)
         IN  [price |-> IF r.result = "ok" THEN quote ELSE 0,
              cache |-> IF r.result = "ok"
                        THEN [cache EXCEPT
                                ![sym] = [price |-> quote, time |-> r.clock]]
                        ELSE cache,
              count |-> r.count, last |-> r.last, clock |-> r.clock,
              calls |-> Calls("get_symbol_ticker", r.calls)]

\* the last price fetched from the exchange, per symbol
Fetched(f, sym, g) ==
    IF g.calls # <<>> /\ g.price # 0
    THEN [f EXCEPT ![sym] = [price |-> g.price, time |-> g.clock]]
    ELSE f

\* a client that was just built, in any mode
InitOps ==
    /\ mode \in Modes
    /\ DcaAtRest
    /\ TiersIdle
    /\ LoopIdle
    /\ GatewayIdle
    /\ OpsIdle
    /\ IndicatorIdle

OpGuard ==
    /\ ops_done < MaxOps
    /\ clock + OpWorst <= MaxClock
    /\ ops_done' = ops_done + 1

OpFrame ==
    /\ UNCHANGED <<gpc, attempt, calls, waits, errs, result, requests,
                   returned, passed, rl_slept>>
    /\ UNCHANGED <<dca, tiers, loop, indicator>>

GetPrice ==
    /\ OpGuard
    /\ \E sym \in Symbols, outs \in Scripts :
       \E quote \in QuotesOf(sym) :
         LET g == get_price(sym, _price_cache, _request_count,
                            _last_request_time, clock, outs, quote)
         IN  /\ op' = [name |-> "get_price", symbol |-> sym]
             /\ ret' = [kind |-> "price", value |-> g.price]
             /\ net_calls' = g.calls
             /\ _price_cache' = g.cache
             /\ fetched' = Fetched(fetched, sym, g)
             /\ _request_count' = g.count
             /\ _last_request_time' = g.last
             /\ clock' = g.clock
    /\ OpFrame

\* place_buy_order: the price, then in the real modes the order call; the
\* answer is what place_buy_order of the strategy's model sees
PlaceBuyOrder ==
    /\ OpGuard
    /\ \E sym \in Symbols, outs \in Scripts :
       \E quote \in QuotesOf(sym) :
         LET g == get_price(sym, _price_cache, _request_count,
                            _last_request_time, clock, outs, quote)
             priceOK == g.price # 0
             sends == mode # "dry_run" /\ priceOK
         IN  \E outsO \in IF sends THEN Scripts ELSE {<<>>} :
               LET r == IF sends
                        THEN _retry_request(g.count, g.last, g.clock, outsO,
                                            0)
                        ELSE [result |-> "none", count |-> g.count,
                              last |-> g.last, clock |-> g.clock,
                              calls |-> 0]
                   o == place_buy_order(mode, priceOK, r.result = "ok",
                                        "num", ops_done + 1)
               IN  /\ op' = [name |-> "place_buy_order", symbol |-> sym]
                   /\ ret' = [kind |-> o.kind, value |-> o.id]
                   /\ net_calls' = g.calls
                                     \o Calls("order_market_buy", r.calls)
                   /\ _price_cache' = g.cache
                   /\ fetched' = Fetched(fetched, sym, g)
                   /\ _request_count' = r.count
                   /\ _last_request_time' = r.last
                   /\ clock' = r.clock
    /\ OpFrame

\* an operation that answers from the configuration in the simulated mode
\* and makes one request f otherwise; its except branch returns bad
Query(name, f, good, bad) ==
    /\ OpGuard
    /\ \E outs \in Scripts :
         LET r == IF mode = "dry_run"
                  THEN [result |-> "ok", count |-> _request_count,
                        last |-> _last_request_time, clock |-> clock,
                        calls |-> 0]
                  ELSE _retry_request(_request_count, _last_request_time,
                                      clock, outs, 0)
         IN  /\ op' = [name |-> name, symbol |-> "none"]
             /\ ret' = IF r.result = "ok" THEN good ELSE bad
             /\ net_calls' = Calls(f, r.calls)
             /\ _request_count' = r.count
             /\ _last_request_time' = r.last
             /\ clock' = r.clock
    /\ UNCHANGED <<_price_cache, fetched>>
    /\ OpFrame

GetBalance ==
    Query("get_balance", "get_account",
          [kind |-> "balance", value |-> total_capital],
          [kind |-> "balance", value |-> 0])

GetOrderStatus ==
    Query("get_order_status", "get_order",
          [kind |-> "order", value |-> 1], [kind |-> "none", value |-> -1])

CancelOrder ==
    Query("cancel_order", "cancel_order",
          [kind |-> "bool", value |-> 1], [kind |-> "bool", value |-> 0])

\* time passes between two operations
Wait ==
    /\ op.name # "wait"
    /\ ops_done < MaxOps
    /\ \E d \in CacheGaps :
         /\ clock + d <= MaxClock
         /\ clock' = clock + d
    /\ op' = [name |-> "wait", symbol |-> "none"]
    /\ UNCHANGED <<_price_cache, fetched, net_calls, ret, ops_done>>
    /\ UNCHANGED <<_request_count, _last_request_time>>
    /\ OpFrame

NextOps ==
    \/ GetPrice
    \/ PlaceBuyOrder
    \/ GetBalance
    \/ GetOrderStatus
    \/ CancelOrder
    \/ Wait

SpecOps == InitOps /\ [][NextOps]_vars

---------------------------------------------------------------------------
(* calculate_rsi, in hundredths: 50.0 is 5000 and 100.0 is 10000 *)

Neutral == 5000
\* the nan numpy gives for the mean of no element
NotANumber == -2

\* a guard that lets a sequence of exactly 'period' prices through
TooShortOffByOne(ps, n) == Len(ps) < n

\* len(prices) < period + 1
TooShort(ps, n) == Len(ps) < n + 1

\* np.diff, np.where(deltas > 0, deltas, 0) and np.where(deltas < 0, -deltas, 0)
Gains(ps) ==
    [i \in 1..(Len(ps) - 1) |->
       IF ps[i + 1] > ps[i] THEN ps[i + 1] - ps[i] ELSE 0]
\* losses taken from the rises instead of the falls
LossesOfRises(ps) == Gains(ps)

Losses(ps) ==
    [i \in 1..(Len(ps) - 1) |->
       IF ps[i + 1] < ps[i] THEN ps[i] - ps[i + 1] ELSE 0]

RECURSIVE SumFirst(_, _)
\* the sum of the first k elements, as many as there are
SumFirst(xs, k) ==
    IF k = 0 \/ xs = <<>> THEN 0
    ELSE LET m == IF k < Len(xs) THEN k ELSE Len(xs)
         IN  xs[m] + SumFirst(xs, m - 1)

RECURSIVE Smooth(_, _, _, _, _)
\* the loop over range(period, len(gains)): the averages are num / den with
\* one denominator for both; the pair of numerators after the last element
Smooth(g, l, den, i, in) ==
    IF i > Len(in.gains) THEN [g |-> g, l |-> l]
    ELSE Smooth(g * (in.n - 1) + in.gains[i] * den,
                l * (in.n - 1) + in.losses[i] * den,
                den * in.n, i + 1, in)

\* round(x, 2) of x = 100 * num / den, in hundredths: to the nearest, a tie
\* to the even one
Round2(num, den) ==
    LET q == (10000 * num) \div den
        r == (10000 * num) % den
    IN  IF 2 * r > den THEN q + 1
        ELSE IF 2 * r = den THEN q + (q % 2)
        ELSE q

\* an index that takes the share of the losses
RsiOfLoss(g, l) == Round2(l, g + l)

\* rs = avg_gain / avg_loss; round(100 - (100 / (1 + rs)), 2), which is
\* 100 * avg_gain / (avg_gain + avg_loss); g and l are the numerators of the
\* two averages over one denominator
Rsi(g, l) == Round2(g, g + l)

calculate_rsi(ps, n) ==
    IF TooShort(ps, n) THEN Neutral
    ELSE IF Len(ps) < 2 THEN NotANumber
    ELSE LET gains == Gains(ps)
             losses == Losses(ps)
             avg == Smooth(SumFirst(gains, n), SumFirst(losses, n), n, n + 1,
                           [gains |-> gains, losses |-> losses, n |-> n])
         IN  IF avg.l = 0 THEN 10000
             ELSE Rsi(avg.g, avg.l)

\* every period and every sequence of prices up to the bounds
InitIndicator ==
    /\ DcaIdle
    /\ TiersIdle
    /\ LoopIdle
    /\ GatewayIdle
    /\ OpsIdle
    /\ period \in 1..MaxPeriod
    /\ \E len \in 0..MaxLen : prices \in [1..len -> 1..MaxPrice]
    /\ rsi_out = NotComputed

ComputeRsi ==
    /\ rsi_out = NotComputed
    /\ rsi_out' = calculate_rsi(prices, period)
    /\ UNCHANGED <<prices, period>>
    /\ UNCHANGED <<dca, tiers, loop, gateway, ops>>

NextIndicator ==
    \/ ComputeRsi

SpecIndicator == InitIndicator /\ [][NextIndicator]_vars

---------------------------------------------------------------------------
(* Claims *)

IsPrefix(s, t) == Len(s) <= Len(t) /\ SubSeq(t, 1, Len(s)) = s

\* C1: daily_spent is never negative and never exceeds max_daily_buy, from a
\* ledger whose total for today is within the cap, over any cycles.
C1_DailySpentWithinCap == daily_spent >= 0 /\ daily_spent <= Cap

\* C2: in one run_check cycle at most one purchase is executed and recorded.
C2_OnePurchasePerCycle == bought <= 1

\* C3: when _execute_buy has returned False, daily_spent, last_buy_date and
\* trades_history are what they were when it was entered, and an error
\* notification was emitted.
C3_FailedAttemptConsumesNothing ==
    (pc = "after_buy" /\ ~success) =>
        /\ daily_spent = pre.daily_spent
        /\ last_buy_date = pre.last_buy_date
        /\ Len(trades_history) = pre.n
        /\ notified = "ERROR"

\* C4: when _execute_buy has returned True, the persisted 'dca_trades' list
\* contains the trade it recorded.
C4_SuccessMeansPersisted ==
    (pc = "after_buy" /\ success) =>
        /\ file.state = "ok"
        /\ \E i \in 1..Len(DcaTrades(file)) :
             DcaTrades(file)[i] = trades_history[Len(trades_history)]

\* C5: a purchase whose ledger write failed is not reported as a success and
\* leaves the budget as it was.
C5_WriteFailureAbortsPurchase ==
    (pc = "after_buy" /\ save_failed) =>
        /\ ~success
        /\ daily_spent = pre.daily_spent

\* C6: in a process started after a crash, every order the gateway confirmed
\* as filled is in the loaded ledger exactly once.
C6_NoFillLostByCrash ==
    (pc = "loaded" /\ crashed) =>
        \A i \in 1..Len(fills) :
            Cardinality({j \in 1..Len(trades_history) :
                           trades_history[j].order_id = fills[i].order_id}) = 1

StampedOnDay(ts, d) ==
    \E t \in 0..MaxNow : isoformat(t) = ts /\ t \div TicksPerDay = d

RECURSIVE SumOver(_, _)
SumOver(trades, S) ==
    IF S = {} THEN 0
    ELSE LET i == CHOOSE x \in S : TRUE
         IN  trades[i].amount + SumOver(trades, S \ {i})

\* get_stats: the snapshot of the strategy, amounts in cents
get_stats(trades, spent, today) ==
    LET today_trades == {i \in 1..Len(trades) :
                           DateOf(fromisoformat(trades[i].timestamp)) = today}
    IN  [total_trades |-> Len(trades),
         today_trades |-> Cardinality(today_trades),
         total_invested |-> SumOver(trades, 1..Len(trades)),
         today_invested |-> SumOver(trades, today_trades),
         daily_budget |-> Cap,
         remaining_today |-> Cap - spent]

\* C10: _load_history on a persisted document sets trades_history to the
\* list under 'dca_trades' and daily_spent to the sum of the amounts of
\* exactly the records whose timestamp was made today.
C10_LoadRoundTrip ==
    [][ (pc = "boot" /\ pc' = "loaded" /\ file.state = "ok") =>
          /\ trades_history' = DcaTrades(file)
          /\ daily_spent' =
               SumOver(DcaTrades(file),
                       {i \in 1..Len(DcaTrades(file)) :
                          StampedOnDay(DcaTrades(file)[i].timestamp, Today)}) ]_vars

\* a ledger saved by a purchase was loaded again: it holds a record of an
\* earlier day, which is not counted, and one of today, which is
C10_Witness ==
    /\ pc = "loaded"
    /\ Len(trades_history) >= 2
    /\ trades_history = DcaTrades(file)
    /\ DateOf(fromisoformat(trades_history[1].timestamp)) # Today
    /\ daily_spent = trades_history[Len(trades_history)].amount
    /\ daily_spent > 0

\* C11: at the start of a cycle, a stored last-spend date other than today
\* resets daily_spent to 0 and the cycle's remaining budget is the full cap;
\* a stored date of today leaves daily_spent unchanged.
C11_RolloverAtCycleStart ==
    [][ (pc \in {"loaded", "idle"} /\ pc' \in {"eval", "idle"} /\ now' = now) =>
          IF last_buy_date # Today
          THEN /\ daily_spent' = 0
               /\ pc' = "eval"
               /\ remaining_budget' = Cap
          ELSE /\ daily_spent' = daily_spent
               /\ (pc' = "eval" => remaining_budget' = Cap - daily_spent) ]_vars

\* the counter of a purchase made on an earlier day was reset: the record is
\* in memory only (its save failed), so the process has run since that day
C11_Witness ==
    /\ pc = "eval"
    /\ file.state = "absent"
    /\ Len(trades_history) >= 1
    /\ DateOf(fromisoformat(trades_history[1].timestamp)) < Today
    /\ daily_spent = 0
    /\ last_buy_date = NoDate
    /\ remaining_budget = Cap

\* C12: in the execution phase, a remaining budget below min_trade_amount
\* stops the walk: the cycle ends with no order submitted for the proposal at
\* hand or a later one, and nothing is consumed.
C12_InsufficientBudgetStops ==
    [][ (pc = "exec" /\ idx <= Len(opportunities) /\ remaining_budget < MinTrade
         /\ pc' # pc) =>
          /\ pc' = "idle"
          /\ fills' = fills
          /\ trades_history' = trades_history
          /\ daily_spent' = daily_spent
          /\ file' = file ]_vars

\* the walk is at a proposal with less than the minimum left of the day's
\* budget
C12_Witness ==
    /\ pc = "exec"
    /\ idx <= Len(opportunities)
    /\ remaining_budget > 0
    /\ remaining_budget < MinTrade

\* position of a coin in the enumeration of the configuration
CoinPos(c) == CHOOSE i \in 1..Len(coins) : coins[i] = c

\* C14: the proposals are ranked by ascending RSI, proposals of equal RSI in
\* the order of the configuration, none lost or added, and the execution
\* phase walks the ranked list from its first element, one by one.
C14_RankedByRsiStable ==
    [][ /\ (pc = "eval" /\ pc' = "exec") =>
              /\ \A i, j \in 1..Len(opportunities') :
                   i < j =>
                     \/ opportunities'[i].rsi < opportunities'[j].rsi
                     \/ /\ opportunities'[i].rsi = opportunities'[j].rsi
                        /\ CoinPos(opportunities'[i].coin)
                             < CoinPos(opportunities'[j].coin)
              /\ \A i \in 1..Len(opportunities) :
                   \E j \in 1..Len(opportunities') :
                      opportunities'[j] = opportunities[i]
              /\ Len(opportunities') \in
                   {Len(opportunities), Len(opportunities) + 1}
              /\ idx' = 1
        /\ (pc = "after_buy" /\ pc' = "exec") =>
              idx' = idx + 1 /\ opportunities' = opportunities
        /\ (pc = "exec" /\ pc' = "submit") =>
              /\ opportunities' = opportunities
              /\ buy_amount' <= opportunities[idx].amount ]_vars

\* the asset evaluated second has the lower RSI and was ranked first; its
\* purchase failed and the walk is at the other one
C14_Witness ==
    /\ pc = "exec"
    /\ idx = 2
    /\ Len(opportunities) = 2
    /\ opportunities[1].coin = "ETH"
    /\ opportunities[2].coin = "BTC"
    /\ opportunities[1].rsi < opportunities[2].rsi

\* C15: whatever the evaluation of one asset meets, the loop goes on to the
\* next asset with the proposals collected so far, and after the last asset
\* every proposal collected is ranked and considered.
C15_EvaluationFailureIsolated ==
    [][ (pc = "eval" /\ now' = now) =>
          IF coin_idx < Len(coins)
          THEN /\ pc' = "eval"
               /\ coin_idx' = coin_idx + 1
               /\ IsPrefix(opportunities, opportunities')
          ELSE opportunities # <<>> =>
                 /\ pc' = "exec"
                 /\ \A i \in 1..Len(opportunities) :
                      \E j \in 1..Len(opportunities') :
                         opportunities'[j] = opportunities[i] ]_vars

\* the first asset gave no proposal and the second one, evaluated after it,
\* is the only one ranked
C15_Witness ==
    /\ pc = "exec"
    /\ Len(opportunities) = 1
    /\ opportunities[1].coin = coins[Len(coins)]

\* C19: at every point where a cancellation can take effect, either no order
\* was submitted for the proposal at hand, or its trade is appended to
\* trades_history, _save_history has run for it (the record is in the
\* document unless the write failed) and it is counted in daily_spent.
C19_CancelNeverSplitsPurchase ==
    (Suspended /\ order.kind = "order") =>
        /\ Len(trades_history) = pre.n + 1
        /\ trades_history[Len(trades_history)].order_id = order.id
        /\ pc \notin {"placed", "writing"}
        /\ (~save_failed =>
              /\ file.state = "ok"
              /\ \E i \in 1..Len(DcaTrades(file)) :
                   DcaTrades(file)[i] = trades_history[Len(trades_history)])
        /\ daily_spent >= buy_amount
        /\ last_buy_date # NoDate

\* the task is suspended in the trade notification, the order recorded,
\* saved and counted
C19_Witness ==
    /\ pc = "alert"
    /\ order.kind = "order"
    /\ ~save_failed
    /\ DcaTrades(file) = trades_history
    /\ daily_spent = pre.daily_spent + buy_amount

\* C13: _get_buy_amount returns the amount of the smallest configured
\* threshold strictly greater than the RSI, and 0 when there is none; with
\* the configured table RSI 28 gives 40, RSI 45 gives 15 and RSI 55 gives 0.
C13_TierOfSmallestThresholdAbove ==
    tier_amount # NotComputed =>
        LET above == {t \in DOMAIN rsi_levels : t > in_rsi}
        IN  /\ tier_amount =
                 IF above = {} THEN 0
                 ELSE rsi_levels[CHOOSE t \in above : \A u \in above : t <= u]
            /\ (in_rsi = 28 => tier_amount = 40)
            /\ (in_rsi = 45 => tier_amount = 15)
            /\ (in_rsi = 55 => tier_amount = 0)

\* an RSI equal to a threshold got the tier of the next threshold
C13_Witness ==
    /\ in_rsi = 40
    /\ tier_amount = 15

\* C16: _check_coin yields a proposal exactly when the tier amount times the
\* coin's allocation is at least min_trade_amount, and the proposal's amount
\* is that product (amounts in cents: euros times percent).
C16_ProposalIffScaledAboveFloor ==
    proposal.done =>
        LET product == tier_amount * allocation[in_coin]
        IN  /\ (proposal.found # <<>>) <=> (product >= MinTrade)
            /\ proposal.found # <<>> =>
                 /\ Len(proposal.found) = 1
                 /\ proposal.found[1].amount = product
                 /\ proposal.found[1].coin = in_coin
                 /\ proposal.found[1].rsi = in_rsi

\* a tier of 25 scaled by the allocation of ETH is below the floor and gave
\* no proposal
C16_Witness ==
    /\ proposal.done
    /\ in_coin = "ETH"
    /\ tier_amount = 25
    /\ proposal.found = <<>>

\* C17: the loop of start ends only by cancellation, and after every cycle,
\* however it ended, another cycle starts unless the task is cancelled.
C17_LoopSurvivesFaults ==
    /\ [](task = "stopped" => cancel_requested)
    /\ \A e \in Endings :
         (task = "sleep" /\ ending = e) ~> (task = "run_check" \/ cancel_requested)

\* a cycle is about to run after a cycle that ended in its except branch
C17_Witness ==
    /\ task = "run_check"
    /\ ending = "caught"
    /\ error_sent
    /\ ~cancel_requested

\* C18: after a cycle in which a failure occurred that nothing inside the
\* cycle handled, the loop sleeps the 60-second cooldown, not the regular
\* check interval.
C18_CooldownAfterFault ==
    (task = "sleep" /\ ending \in {"caught", "escaped"}) => sleep_len = cooldown

\* C20: _retry_request invokes the wrapped call at most max_retries times:
\* inside the loop fewer than max_retries invocations were made, and when
\* every attempt failed with a transient error the request has ended after
\* exactly max_retries invocations by raising the error of the last attempt.
C20_RetryBounded ==
    /\ calls <= max_retries
    /\ gpc = "try" => (calls = attempt /\ attempt < max_retries)
    /\ (/\ gpc = "done"
        /\ calls >= 1
        /\ Len(errs) = calls
        /\ \A i \in 1..Len(errs) : errs[i] \in Transient) =>
           /\ calls = max_retries
           /\ result = errs[Len(errs)]

\* three attempts failed with transient errors, the last one of another kind
\* than the first, and that one was raised after the two backoff sleeps
C20_Witness ==
    /\ gpc = "done"
    /\ calls = max_retries
    /\ errs[1] = "BinanceAPIException"
    /\ result = "BinanceRequestException"
    /\ Len(waits) = max_retries - 1

\* C21: a request that succeeds at attempt k after k-1 transient errors
\* returns the value of attempt k, and its backoff sleeps are retry_delay*1,
\* ..., retry_delay*(k-1) in that order, none after the successful attempt.
C21_LinearBackoffThenResult ==
    (gpc = "done" /\ result = "ok") =>
        /\ returned = calls
        /\ Len(errs) = calls - 1
        /\ \A i \in 1..Len(errs) : errs[i] \in Transient
        /\ waits = [i \in 1..(calls - 1) |-> retry_delay * i]

\* two transient errors, then a success at the third attempt: the sleeps are
\* 1 and 2 times the delay, 3 times the delay in total
C21_Witness ==
    /\ gpc = "done"
    /\ result = "ok"
    /\ returned = 3
    /\ waits = <<retry_delay, 2 * retry_delay>>

\* the calls that passed the governor in the window of 60 s that ends at T
WindowCount(p, T) ==
    LET inside == {i \in 1..Len(p) : p[i].t > T - rate_window /\ p[i].t <= T}
        sum[S \in SUBSET inside] ==
            IF S = {} THEN 0
            ELSE LET i == CHOOSE x \in S : TRUE IN p[i].n + sum[S \ {i}]
    IN  sum[inside]

\* C22: in every window of 60 seconds at most rate_limit calls pass
\* _rate_limit_check (the count is highest in a window that ends at a pass).
C22_RollingWindowCap ==
    \A i \in 1..Len(passed) : WindowCount(passed, passed[i].t) <= rate_limit

\* C23: the rate governor never turns a request away: no call of
\* _rate_limit_check raises, it sleeps at most the 60 seconds of the
\* window, and every attempt that is due gets its call made.
C23_GovernorDelaysNeverDrops ==
    /\ [](result # "raised by _rate_limit_check")
    /\ [](rl_slept >= 0 /\ rl_slept <= rate_window)
    /\ \A n \in 0..(max_retries - 1) :
         (gpc = "try" /\ calls = n) ~> (calls = n + 1)

\* a call found the cap reached, waited for the window to roll over and
\* was made
C23_Witness ==
    /\ rl_slept > 0
    /\ calls >= 1
    /\ _request_count = 1
    /\ _last_request_time = clock
    /\ result = "ok"

\* C24: place_buy_order never raises to its caller: in every mode and for
\* every outcome of the price fetch and of the order call it returns an
\* order or None.
C24_PlaceBuyOrderNeverRaises ==
    op.name = "place_buy_order" => ret.kind \in {"order", "none"}

\* the operations that must stay off the network in the simulated mode
Offline == {"place_buy_order", "get_balance", "get_order_status",
            "cancel_order"}

\* C26: in the simulated mode a purchase, a balance query, an order-status
\* query and a cancel make no call of the exchange client.
C26_DryRunNoNetwork ==
    (mode = "dry_run" /\ op.name \in Offline) => net_calls = <<>>

\* C27: a get_price for a symbol made less than 5 s after the last successful
\* fetch of that symbol returns that price without a call of the exchange
\* client, one made 5 s or more after it (or before any fetch) calls the
\* exchange client, and the price returned is one quoted for the symbol asked.
C27_PriceCachedPerSymbol ==
    [][(op'.name = "get_price" /\ ops_done' = ops_done + 1) =>
         LET last == fetched[op'.symbol]
             recent == last # NoEntry /\ clock - last.time < cache_ttl
         IN  /\ recent => /\ net_calls' = <<>>
                          /\ ret'.value = last.price
                          /\ clock' = clock
             /\ ~recent => net_calls' # <<>>
             /\ ret'.value \in QuotesOf(op'.symbol) \cup {0}]_vars

\* a price served from the cache four seconds after it was fetched
C27_Witness ==
    /\ op.name = "get_price"
    /\ ops_done = 2
    /\ net_calls = <<>>
    /\ ret.value = fetched[op.symbol].price
    /\ clock - fetched[op.symbol].time = cache_ttl - 1

\* C25: in the simulated mode the order call of the exchange client is never
\* made, and every purchase the strategy records carries dry_run = TRUE.
C25_DryRunNeverOrders ==
    /\ [](mode = "dry_run" => ~order.sent)
    /\ [][(/\ mode = "dry_run"
           /\ pc = "placed"
           /\ Len(trades_history') = Len(trades_history) + 1) =>
              trades_history'[Len(trades_history')].dry_run]_vars

\* a simulated purchase was recorded
C25_Witness ==
    /\ mode = "dry_run"
    /\ order.kind = "order"
    /\ ~order.sent
    /\ bought >= 1
    /\ trades_history # <<>>
    /\ trades_history[Len(trades_history)].order_id = order.id
    /\ trades_history[Len(trades_history)].dry_run

\* C28: the engine goes on the same way whether a notification is delivered
\* or not: the opportunity alert never ends the cycle, the purchase that was
\* recorded and counted returns True after its alert, and no alert changes
\* the trades recorded, daily_spent or last_buy_date.
C28_DeliveryFailureHarmless ==
    [][/\ (/\ pc = "exec"
           /\ pc' \notin {"exec", "boot"}
           /\ idx <= Len(opportunities)
           /\ ~InsufficientBudget(remaining_budget)) => pc' = "submit"
       /\ (pc = "alert" /\ pc' = "after_buy") =>
              /\ success' = (order.qty = "num")
              /\ trades_history' = trades_history
              /\ daily_spent' = daily_spent
              /\ last_buy_date' = last_buy_date
       /\ (pc = "submit" /\ pc' = "after_buy") =>
              /\ ~success'
              /\ trades_history' = trades_history
              /\ daily_spent' = daily_spent
              /\ last_buy_date' = last_buy_date]_vars

\* the alert of a purchase was not delivered, the purchase is recorded and
\* counted, and _execute_buy returned True
C28_Witness ==
    /\ pc = "after_buy"
    /\ notified = "TRADE"
    /\ delivered = "failed"
    /\ success
    /\ bought >= 1
    /\ daily_spent >= buy_amount
    /\ last_buy_date = Today

\* C29: whenever get_stats can be called (the strategy is built and its task
\* is suspended), also after a date change that no cycle has processed, its
\* snapshot has remaining_today = daily_budget - today_invested.
C29_StatsConsistentToday ==
    Suspended =>
        LET stats == get_stats(trades_history, daily_spent, Today)
        IN  stats.remaining_today = stats.daily_budget - stats.today_invested

\* C30: for every sequence of fewer than period + 1 prices, the empty one
\* included, calculate_rsi returns the neutral 50.0.
C30_ShortInputNeutral ==
    (rsi_out # NotComputed /\ Len(prices) <= period) => rsi_out = Neutral

\* the longest input that is still short, and the empty one, were computed
C30_Witness ==
    /\ rsi_out = Neutral
    /\ Len(prices) = period
    /\ period > 1
    /\ prices[1] < prices[2]

StrictlyIncreasing(ps) == \A i \in 1..(Len(ps) - 1) : ps[i] < ps[i + 1]
StrictlyDecreasing(ps) == \A i \in 1..(Len(ps) - 1) : ps[i] > ps[i + 1]

\* C31: for every strictly increasing sequence of more than period prices,
\* calculate_rsi returns exactly 100.0.
C31_RisingSeriesIsHundred ==
    (/\ rsi_out # NotComputed
     /\ StrictlyIncreasing(prices)
     /\ Len(prices) > period) => rsi_out = 10000

\* a rising series long enough for the smoothing loop to run got 100.0
C31_Witness ==
    /\ rsi_out = 10000
    /\ StrictlyIncreasing(prices)
    /\ period >= 2
    /\ Len(prices) >= period + 2

\* C32: for every strictly decreasing sequence, of any length, calculate_rsi
\* returns a value in [0, 100).
C32_FallingSeriesBelowHundred ==
    (rsi_out # NotComputed /\ StrictlyDecreasing(prices)) =>
        (rsi_out >= 0 /\ rsi_out < 10000)

\* a falling series long enough for the smoothing loop to run got 0.0
C32_Witness ==
    /\ rsi_out = 0
    /\ StrictlyDecreasing(prices)
    /\ period >= 2
    /\ Len(prices) >= period + 2

\* the purchases recorded since the strategy was built that are dated day d
PurchasesOn(trades, d) ==
    {i \in 1..Len(trades) :
       /\ trades[i].order_id > 0
       /\ DateOf(fromisoformat(trades[i].timestamp)) = d}

\* C33: at most one purchase per calendar day: the first purchase a cycle
\* records is never made on a day on which an earlier cycle has recorded one.
C33_OnePurchasePerDay ==
    [][(/\ pc = "placed"
        /\ Len(trades_history') = Len(trades_history) + 1
        /\ bought = 0) => PurchasesOn(trades_history, Today) = {}]_vars

RECURSIVE PassCount(_)
\* the number of calls that passed the governor
PassCount(p) == IF p = <<>> THEN 0 ELSE p[1].n + PassCount(Tail(p))

\* C34: every attempt of a gateway operation, retries included, passes the
\* rate-limit check of the one gateway and is counted in its counter before
\* the exchange client is invoked: a step that invokes the wrapped call is a
\* step whose check did not raise and added one to _request_count (from 0
\* when the check opened a new window), and no call is made uncounted.
C34_EveryAttemptIsCounted ==
    [][calls' = calls + 1 =>
         /\ ~_rate_limit_check(_request_count, _last_request_time,
                               clock).raised
         /\ \/ _request_count' = _request_count + 1
            \/ _request_count' = 1
         /\ _request_count' =
              _rate_limit_check(_request_count, _last_request_time,
                                clock).count
         /\ PassCount(passed') = PassCount(passed) + 1]_vars

\* a request on a fresh gateway whose third attempt succeeded: the three
\* attempts are the three calls the counter holds
C34_Witness ==
    /\ gpc = "done"
    /\ result = "ok"
    /\ calls = 3
    /\ requests = 1
    /\ _request_count = 3
    /\ PassCount(passed) = 3

\* C35: when a cycle has passed its rollover check, daily_spent is the sum
\* of the amounts of the trades of trades_history that are dated today.
C35_DailySpentIsTodaysSum ==
    [][(pc \in {"loaded", "idle"} /\ pc' = "eval") =>
         daily_spent' = get_stats(trades_history', daily_spent',
                                  Today).today_invested]_vars

\* C36: every order a cycle submits, and so every trade it records, has an
\* amount between min_trade_amount and max_daily_buy - daily_spent, with
\* daily_spent as it is when the order is submitted.
C36_OrderWithinRemainingBudget ==
    [][(pc = "submit" /\ pc' = "placed") =>
         /\ buy_amount >= MinTrade
         /\ buy_amount <= Cap - daily_spent]_vars

\* C37: a cycle that finds daily_spent at max_daily_buy after its rollover
\* check returns at once: no asset is evaluated, no order is submitted, no
\* notification is sent, and daily_spent, last_buy_date, trades_history and
\* the file are as they were.
C37_CappedCycleTouchesNothing ==
    [][(/\ pc \in {"loaded", "idle"}
        /\ now' = now
        /\ pc' # "boot"
        /\ _reset_daily_counter(daily_spent, last_buy_date,
                                Today).daily_spent >= Cap) =>
         /\ pc' = "idle"
         /\ opportunities' = <<>>
         /\ order' = NoOrder
         /\ notified' = "none"
         /\ fills' = fills
         /\ daily_spent' = daily_spent
         /\ last_buy_date' = last_buy_date
         /\ trades_history' = trades_history
         /\ file' = file]_vars

\* a strategy that was built from a ledger whose trades of today sum to the
\* daily limit, about to run its first cycle
C37_Witness ==
    /\ pc = "loaded"
    /\ daily_spent = Cap
    /\ last_buy_date = Today
    /\ Len(trades_history) >= 2

\* C38: in every state of the strategy, last_buy_date is unset exactly when
\* daily_spent is 0.
C38_DateUnsetIffNothingSpent ==
    (last_buy_date = NoDate) <=> (daily_spent = 0)

\* a purchase of today is counted in a process that bought on an earlier day
\* (no save succeeded, so that trade was not loaded): load left both fields
\* unset, the first purchase set both, the rollover reset both and the
\* second purchase sets both again
C38_Witness ==
    /\ pc = "alert"
    /\ file.state = "absent"
    /\ Len(trades_history) = 2
    /\ DateOf(fromisoformat(trades_history[1].timestamp)) < Today
    /\ DateOf(fromisoformat(trades_history[2].timestamp)) = Today
    /\ pre.daily_spent = 0
    /\ pre.last_buy_date = NoDate
    /\ daily_spent = buy_amount
    /\ last_buy_date = Today

\* C39: an exception of the wrapped call that is neither a
\* BinanceAPIException nor a BinanceRequestException is not retried: the
\* attempt that met it is the last invocation of the request, no backoff
\* sleep follows it, and it is the exception the caller gets.
C39_OtherExceptionNotRetried ==
    [][(/\ gpc = "try"
        /\ Len(errs') = Len(errs) + 1
        /\ errs'[Len(errs')] = "Exception") =>
         /\ gpc' = "done"
         /\ result' = "Exception"
         /\ calls' = calls + 1
         /\ waits' = waits
         /\ clock' = _rate_limit_check(_request_count, _last_request_time,
                                       clock).clock]_vars

\* the first attempt of a request met such an exception: one invocation, no
\* sleep
C39_Witness ==
    /\ gpc = "done"
    /\ result = "Exception"
    /\ calls = 1
    /\ errs = <<"Exception">>
    /\ waits = <<>>

\* the call of _rate_limit_check at time t finds the counter at rate_limit
\* and blocks
Blocks(count, last, t) ==
    (IF Expired(last, t) THEN 0 ELSE count) >= rate_limit

\* C40: under a clock that never goes back, the window never starts after
\* the present, and whenever _rate_limit_check blocks because the counter
\* reached rate_limit the sleep it computes is between 0 and 60 seconds and
\* is the time the call sleeps.
C40_SleepWithinWindow ==
    /\ [](_last_request_time <= clock)
    /\ [][(/\ gpc = "try"
           /\ attempt < max_retries
           /\ Blocks(_request_count, _last_request_time, clock)) =>
            LET last1 == IF Expired(_last_request_time, clock)
                         THEN clock ELSE _last_request_time
                sleep_time == SleepTime(last1, clock)
            IN  /\ sleep_time >= 0
                /\ sleep_time <= rate_window
                /\ rl_slept' = sleep_time
                /\ clock' >= clock + sleep_time]_vars

\* a call that found the counter at rate_limit half-way through the window
\* slept the other half, and the window was opened anew when it woke up
C40_Witness ==
    /\ rl_slept = rate_window - 30
    /\ calls = 1
    /\ _request_count = 1
    /\ _last_request_time = StartTime + rl_slept
    /\ clock >= _last_request_time

====
